---- MODULE Spec2Model ----
(***************************************************************************)
(* Model of foragedScatter.py: a Streamlit page that loads one worksheet   *)
(* through a time-boxed cache, cleans and sorts it, and plots a selection. *)
(*                                                                         *)
(* Streamlit executes the script top to bottom on every user interaction   *)
(* (a "page run").  Module-level statements are therefore steps of the     *)
(* page-run handler; the only state that survives a run is                 *)
(* st.session_state and the st.cache_data store.                           *)
(***************************************************************************)
EXTENDS Integers, Sequences, FiniteSets, TLC

VARIABLES
    grid,           \* rows of the worksheet "Raw Data" below the header row
    now,            \* wall clock, seconds
    cache,          \* st.cache_data store of load_data: <<>> or <<[df, at]>>
    timestamp,      \* attribute load_data.timestamp of the run's function object
    last_updated,   \* what the "Last Updated" line of the last run showed
    df,             \* dataset the last run got from load_data(): <<>> or <<d>>
    selected_mice,  \* st.session_state.selected_mice
    average_mode,   \* st.session_state.average_mode
    plot_requested, \* st.session_state.plot_requested
    out,            \* what the plotting section of the last run rendered
    pc,             \* "idle", or "rerun" after st.experimental_rerun()
    last            \* history: how the last load_data() call went

vars == <<grid, now, cache, timestamp, last_updated, df, selected_mice,
          average_mode, plot_requested, out, pc, last>>

(***************************************************************************)
(* Bounds and input sets                                                   *)
(***************************************************************************)
\* Largest number of data rows of a worksheet in SpecPipeline.
MaxRows == 3

\* ttl of @st.cache_data(ttl=600), seconds.
TTL == 600

\* Clock readings at which page runs happen: they give a stored entry the
\* ages 1, 599, 600 (= TTL) and 601.
Instants == {0, 1, 600, 601}

\* NaT, the key pd.to_datetime(d, errors='coerce') gives an unparseable label.
NaT == -1

\* getattr(load_data, 'timestamp', None): the attribute is not set.
NoTime == -1

Range(s) == {s[i] : i \in 1..Len(s)}

(***************************************************************************)
(* Cell texts.  Strings cannot be taken apart here, so each conversion the *)
(* code applies to a cell is given by its value on the texts in use.       *)
(***************************************************************************)
\* Rows the worksheet is built from: [Mouse ID, Date, Total Foraged] cells,
\* all text, as worksheet.get_all_values() returns them ("" = empty cell).
RowPool ==
    { [mouse |-> "M1",  date |-> "2024-01-02",  amount |-> "5"],
      [mouse |-> "M1",  date |-> "x",           amount |-> "-2"],
      [mouse |-> "M1",  date |-> "2024-01-01",  amount |-> "0"],
      [mouse |-> "M1",  date |-> "",            amount |-> "5"],
      [mouse |-> "",    date |-> "2024-01-01",  amount |-> "5"],
      [mouse |-> "M2",  date |-> "2024-01-01",  amount |-> ""],
      [mouse |-> "M2",  date |-> "2024-01-02",  amount |-> "abc"],
      [mouse |-> "M2",  date |-> " 2024-01-02", amount |-> "5"],
      [mouse |-> "M10", date |-> "2024-01-01",  amount |-> "-2"],
      [mouse |-> "M2",  date |-> "y",           amount |-> "0"] }

\* Entity ids a selection may hold.
Entities == {"", "M1", "M10", "M2"}

\* A cell that holds no value at all (None / NaN), which is what dropna drops.
\* get_all_values() returns text for every cell, so no cell of RowPool is one.
NoneCell == "<None>"

\* str.strip() on the Date texts in use.
Strip(s) == IF s = " 2024-01-02" THEN "2024-01-02" ELSE s

\* pd.to_numeric(s, errors='coerce'): <<v>> for numeric text, <<>> for NaN.
ToNumeric(s) ==
    CASE s = "5"  -> <<5>>
      [] s = "0"  -> <<0>>
      [] s = "-2" -> <<-2>>
      [] OTHER    -> <<>>

\* pd.to_datetime(d, errors='coerce') as a day number, NaT when d does not parse.
ToDatetime(d) ==
    CASE d = "2024-01-01" -> 20240101
      [] d = "2024-01-02" -> 20240102
      [] OTHER            -> NaT

\* key(a) < key(b) for the keys of line 57: any comparison with NaT is False.
KeyLt(a, b) ==
    /\ ToDatetime(a) # NaT
    /\ ToDatetime(b) # NaT
    /\ ToDatetime(a) < ToDatetime(b)

\* Python's str order on the Mouse ID texts in use (code points, left to right).
StrOrder == <<"", "M1", "M10", "M2">>

StrIndex(s) == CHOOSE i \in 1..Len(StrOrder) : StrOrder[i] = s

StrLt(a, b) == StrIndex(a) < StrIndex(b)

(***************************************************************************)
(* load_data, lines 46-61: cleaning and sorting                            *)
(***************************************************************************)
\* df[[...]].dropna(): drops the rows that hold a None/NaN cell.
DropNa(rows) ==
    SelectSeq(rows, LAMBDA r : /\ r.mouse # NoneCell
                               /\ r.date # NoneCell
                               /\ r.amount # NoneCell)

\* Lines 52-54: astype(str), str.strip(), to_numeric(errors='coerce').
Coerce(rows) ==
    [i \in 1..Len(rows) |->
        [mouse |-> rows[i].mouse,
         date  |-> Strip(rows[i].date),
         num   |-> ToNumeric(rows[i].amount)]]

\* Line 55: dropna(subset=['Total Foraged']).
DropNaAmount(rows) ==
    LET kept == SelectSeq(rows, LAMBDA r : r.num # <<>>)
    IN  [i \in 1..Len(kept) |->
            [mouse |-> kept[i].mouse, date |-> kept[i].date,
             amount |-> kept[i].num[1]]]

\* Series.unique(): the distinct values in order of first appearance.
RECURSIVE Unique(_)
Unique(s) ==
    IF s = <<>> THEN <<>>
    ELSE LET r == Unique(SubSeq(s, 1, Len(s) - 1))
         IN  IF s[Len(s)] \in Range(r) THEN r ELSE Append(r, s[Len(s)])

Reverse(s) == [i \in 1..Len(s) |-> s[Len(s) + 1 - i]]

\* list.sort's count_run: length of the run that starts the list, given
\* that its first i elements form one.
RECURSIVE RunLen(_, _, _)
RunLen(s, i, desc) ==
    IF i = Len(s) THEN i
    ELSE IF KeyLt(s[i + 1], s[i]) = desc THEN RunLen(s, i + 1, desc)
    ELSE i

\* list.sort's binarysort: the slot of pivot in the sorted prefix.
RECURSIVE BinarySlot(_, _, _, _)
BinarySlot(sorted, pivot, l, r) ==
    IF l >= r THEN l
    ELSE LET p == l + ((r - l) \div 2)
         IN  IF KeyLt(pivot, sorted[p + 1])
             THEN BinarySlot(sorted, pivot, l, p)
             ELSE BinarySlot(sorted, pivot, p + 1, r)

RECURSIVE BinarySort(_, _)
BinarySort(sorted, rest) ==
    IF rest = <<>> THEN sorted
    ELSE LET l == BinarySlot(sorted, rest[1], 0, Len(sorted))
         IN  BinarySort(SubSeq(sorted, 1, l) \o <<rest[1]>>
                            \o SubSeq(sorted, l + 1, Len(sorted)),
                        Tail(rest))

\* sorted(labels, key=lambda d: pd.to_datetime(d, errors='coerce')), line 57.
\* For fewer than 64 elements list.sort takes the run at the start of the
\* list (reversed when strictly descending) and inserts the rest by binary
\* insertion, comparing keys with < only.
SortedDates(labels) ==
    IF Len(labels) < 2 THEN labels
    ELSE LET desc == KeyLt(labels[2], labels[1])
             n    == RunLen(labels, 2, desc)
             run  == SubSeq(labels, 1, n)
         IN  BinarySort(IF desc THEN Reverse(run) ELSE run,
                        SubSeq(labels, n + 1, Len(labels)))

\* Code of a label in pd.Categorical(categories=unique_dates, ordered=True).
CatCode(cats, d) == CHOOSE i \in 1..Len(cats) : cats[i] = d

\* Order of sort_values(['Mouse ID', 'Date']): Mouse ID, then category code.
RecLt(cats, a, b) ==
    \/ StrLt(a.mouse, b.mouse)
    \/ /\ a.mouse = b.mouse
       /\ CatCode(cats, a.date) < CatCode(cats, b.date)

\* sort_values is stable for several keys: a row goes after the rows that are
\* not greater than it.
RECURSIVE SortValues(_, _)
SortValues(cats, rows) ==
    IF rows = <<>> THEN <<>>
    ELSE LET head == SortValues(cats, SubSeq(rows, 1, Len(rows) - 1))
             x    == rows[Len(rows)]
             k    == Cardinality({i \in 1..Len(head) : ~RecLt(cats, x, head[i])})
         IN  SubSeq(head, 1, k) \o <<x>> \o SubSeq(head, k + 1, Len(head))

\* Lines 46-61 on the rows of the sheet: the returned DataFrame.
CleanAndSort(rows) ==
    LET clean == DropNaAmount(Coerce(DropNa(rows)))
        cats  == SortedDates(Unique([i \in 1..Len(clean) |-> clean[i].date]))
    IN  [rows |-> SortValues(cats, clean), categories |-> cats]

(***************************************************************************)
(* Lines 85-128: the picker's options and the plotting section             *)
(***************************************************************************)
\* sorted(...) of distinct Mouse ID texts: each goes after the smaller ones.
RECURSIVE SortedStr(_)
SortedStr(s) ==
    IF s = <<>> THEN <<>>
    ELSE LET head == SortedStr(SubSeq(s, 1, Len(s) - 1))
             x    == s[Len(s)]
             k    == Cardinality({i \in 1..Len(head) : ~StrLt(x, head[i])})
         IN  SubSeq(head, 1, k) \o <<x>> \o SubSeq(head, k + 1, Len(head))

\* Line 85: all_mice = sorted(df['Mouse ID'].unique()).
AllMice(d) == SortedStr(Unique([i \in 1..Len(d.rows) |-> d.rows[i].mouse]))

\* Lines 114-115: the (Date, Total Foraged) points of df[df['Mouse ID'] == mouse].
PointsOf(d, mouse) ==
    LET sub == SelectSeq(d.rows, LAMBDA r : r.mouse = mouse)
    IN  [i \in 1..Len(sub) |-> [x |-> sub[i].date, y |-> sub[i].amount]]

\* A loop that numbers the selected mice instead of all_mice.
TimeSeriesOverSelection(d, all_mice, selected) ==
    LET chosen == SelectSeq(all_mice, LAMBDA m : m \in selected)
    IN  [i \in 1..Len(chosen) |->
            [label |-> chosen[i], color |-> i - 1,
             points |-> PointsOf(d, chosen[i])]]

\* Lines 111-116: one line per mouse of all_mice that is selected, coloured
\* color_map(i) with i the position of the mouse in all_mice.
TimeSeries(d, all_mice, selected) ==
    LET each == [i \in 1..Len(all_mice) |->
                    [label |-> all_mice[i], color |-> i - 1,
                     points |-> PointsOf(d, all_mice[i])]]
    IN  SelectSeq(each, LAMBDA e : e.label \in selected)

RECURSIVE Sum(_)
Sum(s) == IF s = <<>> THEN 0 ELSE s[1] + Sum(Tail(s))

Abs(x) == IF x < 0 THEN -x ELSE x

RECURSIVE Gcd(_, _)
Gcd(a, b) == IF b = 0 THEN a ELSE Gcd(b, a % b)

\* The quotient num/den, den > 0, in lowest terms.
Quotient(num, den) ==
    LET g == Gcd(Abs(num), den)
    IN  [num |-> num \div g, den |-> den \div g]

\* A mean that divides by the number of rows of the whole frame.
MeanOverFrame(d, mouse) ==
    LET sub == SelectSeq(d.rows, LAMBDA r : r.mouse = mouse)
    IN  Quotient(Sum([i \in 1..Len(sub) |-> sub[i].amount]), Len(d.rows))

\* Series.mean() of one group of groupby("Mouse ID")["Total Foraged"].
GroupMean(d, mouse) ==
    LET sub == SelectSeq(d.rows, LAMBDA r : r.mouse = mouse)
    IN  Quotient(Sum([i \in 1..Len(sub) |-> sub[i].amount]), Len(sub))

\* Line 104: df[df['Mouse ID'].isin(selected)].groupby("Mouse ID")[...].mean():
\* one value per Mouse ID present in the filtered frame, in sorted key order.
AverageBars(d, selected) ==
    LET kept   == SelectSeq(d.rows, LAMBDA r : r.mouse \in selected)
        groups == SortedStr(Unique([i \in 1..Len(kept) |-> kept[i].mouse]))
    IN  [i \in 1..Len(groups) |->
            [id |-> groups[i], mean |-> GroupMean(d, groups[i])]]

Rendered(kind, lines, bars) == [kind |-> kind, lines |-> lines, bars |-> bars]

\* A plotting section without the test of line 100.
PlottingWithoutGuard(d, all_mice, requested, selected, average) ==
    IF ~requested THEN Rendered("none", <<>>, <<>>)
    ELSE IF average THEN Rendered("average", <<>>, AverageBars(d, selected))
    ELSE Rendered("series", TimeSeries(d, all_mice, selected), <<>>)

\* Lines 96-128: nothing unless a plot was requested; a chart for a
\* non-empty selection; st.warning("Please select ...") for an empty one.
Plotting(d, all_mice, requested, selected, average) ==
    IF ~requested THEN Rendered("none", <<>>, <<>>)
    ELSE IF selected # {} THEN
        IF average THEN Rendered("average", <<>>, AverageBars(d, selected))
        ELSE Rendered("series", TimeSeries(d, all_mice, selected), <<>>)
    ELSE Rendered("warning", <<>>, <<>>)

(***************************************************************************)
(* The cache of @st.cache_data(ttl=600) and the refresh button             *)
(***************************************************************************)
\* A decorator that never serves a stored entry.
CacheHitNever(c, t, servedAtTtl) == FALSE

\* Whether @st.cache_data(ttl=600) serves the stored entry at time t: it does
\* while the entry is younger than ttl and does not once it is older.  At an
\* age of exactly ttl the releases of the store differ (expiry tested with <
\* or with <=), so servedAtTtl is either.
CacheHit(c, t, servedAtTtl) ==
    /\ c # <<>>
    /\ \/ t - c[1].at < TTL
       \/ t - c[1].at = TTL /\ servedAtTtl

\* A clear() that leaves the store as it is.
ClearKeeps(c) == c

\* Line 67: load_data.clear() empties the store.
Clear(c) == <<>>

\* Worksheets of Spec: one with two mice, an unparseable label and a row
\* without a date, and one with another mouse.
SheetGrids ==
    { << [mouse |-> "M1", date |-> "2024-01-02", amount |-> "5"],
         [mouse |-> "M1", date |-> "2024-01-01", amount |-> "0"],
         [mouse |-> "M2", date |-> "x",          amount |-> "0"],
         [mouse |-> "M1", date |-> "",           amount |-> "5"] >>,
      << [mouse |-> "M10", date |-> "2024-01-01", amount |-> "-2"] >> }

NoLoad ==
    [n |-> 0, fetched |-> FALSE, ok |-> FALSE, forced |-> FALSE, at |-> 0,
     before |-> <<>>, prior |-> <<>>, good |-> <<>>]

\* Lines 14-19 on a new session; nothing stored, nothing rendered yet.
Init ==
    /\ grid \in SheetGrids
    /\ now = 0
    /\ cache = <<>>
    /\ timestamp = NoTime
    /\ last_updated = <<>>
    /\ df = <<>>
    /\ selected_mice = {}
    /\ average_mode = FALSE
    /\ plot_requested = FALSE
    /\ out = Rendered("none", <<>>, <<>>)
    /\ pc = "idle"
    /\ last = NoLoad

\* Time passes between page runs.
Tick ==
    /\ \E t \in Instants : t > now /\ now' = t
    /\ UNCHANGED <<grid, cache, timestamp, last_updated, df, selected_mice,
                   average_mode, plot_requested, out, pc, last>>

\* Somebody edits the worksheet.
EditSheet ==
    /\ \E g \in SheetGrids : g # grid /\ grid' = g
    /\ UNCHANGED <<now, cache, timestamp, last_updated, df, selected_mice,
                   average_mode, plot_requested, out, pc, last>>

\* Lines 64-69: the run started by a click on "Refresh Data".  The def of
\* lines 38-39 has made a new load_data; the run ends at
\* st.experimental_rerun(), before "Last Updated" and before load_data().
Refresh ==
    /\ pc = "idle"
    /\ cache' = Clear(cache)
    /\ plot_requested' = FALSE
    /\ timestamp' = NoTime
    /\ last_updated' = <<>>
    /\ df' = <<>>
    /\ out' = Rendered("none", <<>>, <<>>)
    /\ pc' = "rerun"
    /\ UNCHANGED <<grid, now, selected_mice, average_mode, last>>

\* A page run that passes line 69: a plain run (page load, the rerun after a
\* refresh) or, with submit, the run started by "Plot Graph" with the picker
\* at sel and the checkbox at avg.  hit: the store serves its entry; fetchOk:
\* credentials, network and worksheet are there; d: the dataset the store or
\* the body yields; all_mice: line 85 on d.
\*   lines 38-39  the def makes a new load_data object, which has no
\*                timestamp attribute
\*   lines 71-76  "Last Updated" reads that attribute before load_data() is
\*                called, so it finds none and shows "Unknown"
\*   line  80     load_data(): the stored entry, or the body: line 40 sets
\*                timestamp, lines 41-46 fetch, lines 47-61 clean; only a
\*                returned value is stored, an exception ends the run, and an
\*                entry found expired is not served again
\*   lines 83-93  the picker over all_mice, which raises when its default
\*                (the stored selection) is not among the options
\*   lines 96-128 the plotting section
Run(hit, fetchOk, d, all_mice, submit, sel, avg) ==
    LET fetched  == ~hit
        loaded   == hit \/ fetchOk
        entry    == [df |-> d, at |-> now]
        picker   == selected_mice \subseteq Range(all_mice)
        clicked  == submit /\ picker
        selected == IF clicked THEN sel ELSE selected_mice
        average  == IF clicked THEN avg ELSE average_mode
        request  == clicked \/ plot_requested
    IN  /\ submit => pc = "idle" /\ loaded
        /\ last_updated' = <<NoTime>>
        /\ timestamp' = IF fetched THEN now ELSE NoTime
        /\ cache' = IF hit THEN cache ELSE IF fetchOk THEN <<entry>> ELSE <<>>
        /\ df' = IF loaded THEN <<d>> ELSE <<>>
        /\ last' = [n       |-> 1 - last.n,
                    fetched |-> fetched,
                    ok      |-> loaded,
                    forced  |-> pc = "rerun",
                    at      |-> now,
                    before  |-> cache,
                    prior   |-> last.good,
                    good    |-> IF fetched /\ fetchOk THEN <<entry>> ELSE last.good]
        /\ selected_mice' = selected
        /\ average_mode' = average
        /\ plot_requested' = request
        /\ out' = IF loaded /\ picker
                  THEN Plotting(d, all_mice, request, selected, average)
                  ELSE Rendered("error", <<>>, <<>>)
        /\ pc' = "idle"
        /\ UNCHANGED <<grid, now>>

\* The inputs of a page run: what the store does at an age of exactly ttl,
\* whether the fetch succeeds, and what the user submits; the picker offers
\* the mice of the dataset the run loaded.
PageRun ==
    \E servedAtTtl \in BOOLEAN :
    \E hit \in {CacheHit(cache, now, servedAtTtl)} :
    \E fetchOk \in IF hit THEN {TRUE} ELSE BOOLEAN :
    \E d \in {IF hit THEN cache[1].df ELSE CleanAndSort(grid)} :
    \E all_mice \in {AllMice(d)} :
        \/ Run(hit, fetchOk, d, all_mice, FALSE, {}, FALSE)
        \/ \E avg \in BOOLEAN, sel \in SUBSET Range(all_mice) :
              Run(hit, fetchOk, d, all_mice, TRUE, sel, avg)

Next == Tick \/ EditSheet \/ Refresh \/ PageRun

Spec == Init /\ [][Next]_vars

(***************************************************************************)
(* SpecPipeline: lines 46-61 and 85-128 as functions of their inputs, over *)
(* every worksheet of at most MaxRows rows of RowPool and every selection. *)
(***************************************************************************)
InitPipeline ==
    /\ grid = <<>>
    /\ now = 0
    /\ cache = <<>>
    /\ timestamp = NoTime
    /\ last_updated = <<>>
    /\ df = <<>>
    /\ selected_mice = {}
    /\ average_mode = FALSE
    /\ plot_requested = FALSE
    /\ out = Rendered("none", <<>>, <<>>)
    /\ pc = "edit"
    /\ last = NoLoad

\* One more row is typed into the worksheet.
AppendRow ==
    /\ pc = "edit"
    /\ Len(grid) < MaxRows
    /\ \E r \in RowPool : grid' = Append(grid, r)
    /\ UNCHANGED <<now, cache, timestamp, last_updated, df, selected_mice,
                   average_mode, plot_requested, out, pc, last>>

\* Lines 46-61 on the worksheet as it is.
LoadSheet ==
    /\ pc = "edit"
    /\ df' = <<CleanAndSort(grid)>>
    /\ pc' = "loaded"
    /\ UNCHANGED <<grid, now, cache, timestamp, last_updated, selected_mice,
                   average_mode, plot_requested, out, last>>

\* Lines 85 and 96-128 on the loaded dataset with a plot requested, for any
\* stored selection and mode.
PlotSection ==
    /\ pc = "loaded"
    /\ \E sel \in SUBSET Entities, avg \in BOOLEAN :
         /\ selected_mice' = sel
         /\ average_mode' = avg
         /\ plot_requested' = TRUE
         /\ out' = Plotting(df[1], AllMice(df[1]), TRUE, sel, avg)
    /\ pc' = "plotted"
    /\ UNCHANGED <<grid, now, cache, timestamp, last_updated, df, last>>

NextPipeline == AppendRow \/ LoadSheet \/ PlotSection

SpecPipeline == InitPipeline /\ [][NextPipeline]_vars

(***************************************************************************)
(* Properties                                                              *)
(***************************************************************************)
\* A step in which load_data() is called (line 80).
LoadStep == last'.n # last.n

\* C1: load_data() fetches only when the store holds no entry or the entry is
\* at least TTL old; a load that does not fetch returns the stored dataset and
\* leaves the store alone; and a load inside the TTL window of a load that
\* fetched and stored, with no refresh between the two, does not fetch and
\* returns the dataset the first one stored.
C1_FetchOnlyWithoutFreshEntry ==
    [][LoadStep =>
        /\ last'.fetched => (cache = <<>> \/ now - cache[1].at >= TTL)
        /\ ~last'.fetched =>
              cache # <<>> /\ df' = <<cache[1].df>> /\ cache' = cache
        /\ (last.fetched /\ last.ok /\ pc = "idle" /\ now - last.at < TTL) =>
              ~last'.fetched /\ df' = df]_vars

\* A load 599 s after the fetch that stored the entry was served from the store.
C1_Witness ==
    /\ last.n = 0
    /\ ~last.fetched
    /\ last.before # <<>>
    /\ last.at - last.before[1].at = 599
    /\ df = <<last.before[1].df>>

\* C2: the refresh click empties the store, and the load_data() call of the
\* run that follows it fetches, whatever the age of the entry that was stored.
C2_RefreshForcesFetch ==
    [][/\ (pc = "idle" /\ pc' = "rerun") => cache' = <<>>
       /\ (pc = "rerun" /\ LoadStep) => last'.fetched]_vars

\* A load after a refresh fetched one second after the last successful fetch.
C2_Witness ==
    /\ last.forced
    /\ last.fetched
    /\ last.prior # <<>>
    /\ last.at - last.prior[1].at = 1

\* C3: a load whose fetch fails, when an earlier fetch had succeeded, returns
\* the dataset of that earlier fetch, and the store still holds it.
C3_FailedFetchKeepsDataset ==
    (pc = "idle" /\ last.fetched /\ ~last.ok /\ last.prior # <<>>) =>
        /\ df = <<last.prior[1].df>>
        /\ cache # <<>>
        /\ cache[1].df = last.prior[1].df

\* C10: the "Last Updated" line of a run shows the time of the fetch that
\* produced the dataset of that run, and "Unknown" only in a run without one.
C10_LastUpdatedIsFetchTime ==
    last_updated # <<>> =>
        /\ last_updated = <<NoTime>> => df = <<>>
        /\ df # <<>> => cache # <<>> /\ last_updated = <<cache[1].at>>

\* C6: with a plot requested and an empty selection, in either mode, a run
\* that has a dataset renders the prompt and no chart.
C6_EmptySelectionPrompts ==
    (plot_requested /\ selected_mice = {} /\ df # <<>>) =>
        out = Rendered("warning", <<>>, <<>>)

\* An empty selection was submitted in average mode over a non-empty dataset.
C6_Witness ==
    /\ plot_requested
    /\ selected_mice = {}
    /\ average_mode
    /\ df # <<>>
    /\ df[1].rows # <<>>
    /\ out.kind = "warning"

\* The rows of the worksheet that hold text in all three columns and a number
\* in Total Foraged.
CompleteRows ==
    {i \in 1..Len(grid) :
        /\ grid[i].mouse # ""
        /\ Strip(grid[i].date) # ""
        /\ grid[i].amount # ""
        /\ ToNumeric(grid[i].amount) # <<>>}

\* C4: the cleaned dataset holds the complete rows of the worksheet and no
\* other: every record has an entity id and a period label.
C4_CleanedRecordsComplete ==
    pc = "loaded" =>
        /\ \A i \in 1..Len(df[1].rows) :
              df[1].rows[i].mouse # "" /\ df[1].rows[i].date # ""
        /\ Len(df[1].rows) = Cardinality(CompleteRows)

\* C5: the records are in entity order, and of two records of one entity
\* whose labels both parse, the one with the earlier date comes first.
C5_RecordsInEntityAndDateOrder ==
    pc = "loaded" =>
        \A i, j \in 1..Len(df[1].rows) :
            i < j =>
                LET a == df[1].rows[i]
                    b == df[1].rows[j]
                IN  /\ ~StrLt(b.mouse, a.mouse)
                    /\ ~(a.mouse = b.mouse /\ KeyLt(b.date, a.date))

\* First row of the worksheet that brings label d into the cleaned rows.
FirstSeen(d) ==
    CHOOSE i \in 1..Len(grid) :
        /\ Strip(grid[i].date) = d /\ ToNumeric(grid[i].amount) # <<>>
        /\ \A k \in 1..(i - 1) :
              ~(Strip(grid[k].date) = d /\ ToNumeric(grid[k].amount) # <<>>)

\* C9: in the order of the period labels every label that parses comes before
\* every label that does not, the parsed ones are chronological, and the
\* others are in the order in which the worksheet brings them.
C9_PeriodOrder ==
    pc = "loaded" =>
        LET cats == df[1].categories
        IN  \A i, j \in 1..Len(cats) :
                i < j =>
                    /\ ToDatetime(cats[j]) # NaT => ToDatetime(cats[i]) # NaT
                    /\ ~KeyLt(cats[j], cats[i])
                    /\ (ToDatetime(cats[i]) = NaT /\ ToDatetime(cats[j]) = NaT)
                          => FirstSeen(cats[i]) < FirstSeen(cats[j])

\* The entity ids of the dataset.
MiceOf(d) == {d.rows[i].mouse : i \in 1..Len(d.rows)}

\* C7: a series chart has one line per selected entity of the dataset, in
\* entity order; the line holds the records of its entity in dataset order,
\* and its colour index is the number of entities of the whole dataset that
\* come before its entity, whatever the selection.
C7_SeriesLines ==
    (pc = "plotted" /\ out.kind = "series") =>
        LET d == df[1]
            L == out.lines
        IN  /\ {L[i].label : i \in 1..Len(L)} = selected_mice \cap MiceOf(d)
            /\ \A i, j \in 1..Len(L) : i < j => StrLt(L[i].label, L[j].label)
            /\ \A i \in 1..Len(L) :
                  LET idx == {k \in 1..Len(d.rows) : d.rows[k].mouse = L[i].label}
                  IN  /\ L[i].color =
                            Cardinality({m \in MiceOf(d) : StrLt(m, L[i].label)})
                      /\ Len(L[i].points) = Cardinality(idx)
                      /\ \A k \in idx :
                            LET pos == Cardinality({h \in idx : h <= k})
                            IN  /\ L[i].points[pos].x = d.rows[k].date
                                /\ L[i].points[pos].y = d.rows[k].amount

\* The selection was offered by the picker and leaves out the first entity
\* of the dataset; the line drawn has colour index 1 and two points, the
\* earlier date first.
C7_Witness ==
    /\ pc = "plotted"
    /\ out.kind = "series"
    /\ selected_mice # {}
    /\ selected_mice \subseteq MiceOf(df[1])
    /\ Len(out.lines) = 1
    /\ out.lines[1].color = 1
    /\ Len(out.lines[1].points) = 2
    /\ out.lines[1].points[1].x = "2024-01-01"
    /\ out.lines[1].points[2].x = "2024-01-02"

RECURSIVE SumOver(_, _)
SumOver(rows, idx) ==
    IF idx = {} THEN 0
    ELSE LET k == CHOOSE k \in idx : TRUE
         IN  rows[k].amount + SumOver(rows, idx \ {k})

====
